---- MODULE Spec2Model ----
(***************************************************************************)
(* Smart Tuition Fee Tracker (src/app.py): two SQLite tables, students and *)
(* payments, behind the Streamlit pages "Add Student", "Record Payment",   *)
(* "Dashboard" and "Payment Summary".  Each page handler is one action;    *)
(* the DataFrame expressions the handlers evaluate are operators.          *)
(***************************************************************************)
EXTENDS Integers, Sequences, FiniteSets, TLC

\* Bounds of the model: rows the two tables may hold.
MaxStudents == 2
MaxPayments == 2

\* Browser sessions sharing the cached connection (concurrent specification).
Sessions == {"s1", "s2"}

\* Widget inputs.
NameInputs == {"", "Asha", "Ravi"}
GradeInputs == {"Grade 5"}
ContactInputs == {""}
FeeInputs == {0, 1500}
StartDateInputs == {[year |-> 2025, month |-> 12, day |-> 20]}
\* Options of the "Payment Mode" selectbox, and the ones the runs pick from.
PaymentModes == {"Cash", "UPI", "Bank Transfer"}
PaymentModeInputs == {"Cash", "UPI"}

\* Wall-clock readings of datetime.now() the runs are explored under: one
\* before the start date, one after it in the following year.
Clocks ==
    { [year |-> 2025, month |-> 11, day |-> 15],
      [year |-> 2026, month |-> 1, day |-> 15] }

VARIABLES students, payments, now, out, accepted_total, session

vars == <<students, payments, now, out, accepted_total, session>>

----------------------------------------------------------------------------
\* Date formatting and parsing.

Digit == <<"0", "1", "2", "3", "4", "5", "6", "7", "8", "9">>

MonthAbbr ==
    <<"Jan", "Feb", "Mar", "Apr", "May", "Jun",
      "Jul", "Aug", "Sep", "Oct", "Nov", "Dec">>

Pad2(n) == Digit[((n \div 10) % 10) + 1] \o Digit[(n % 10) + 1]

Pad4(n) == Pad2(n \div 100) \o Pad2(n % 100)

\* strftime("%Y-%m-%d")
strftime_ymd(d) == Pad4(d.year) \o "-" \o Pad2(d.month) \o "-" \o Pad2(d.day)

\* strftime("%b %Y")
strftime_bY(d) == MonthAbbr[d.month] \o " " \o Pad4(d.year)

DigitValue(ch) == CHOOSE v \in 0..9 : Digit[v + 1] = ch

RECURSIVE ParseInt(_)
ParseInt(s) ==
    IF Len(s) = 0 THEN 0
    ELSE 10 * ParseInt(SubSeq(s, 1, Len(s) - 1)) + DigitValue(SubSeq(s, Len(s), Len(s)))

\* datetime.strptime(s, "%Y-%m-%d")
strptime_ymd(s) ==
    [year |-> ParseInt(SubSeq(s, 1, 4)),
     month |-> ParseInt(SubSeq(s, 6, 7)),
     day |-> ParseInt(SubSeq(s, 9, 10))]

----------------------------------------------------------------------------
\* Table and DataFrame expressions.

\* INSERT INTO students: AUTOINCREMENT id, start_date stored as text.
insert_student(students_t, name, grade, monthly_fee, start_date, contact) ==
    Append(students_t,
           [student_id |-> Len(students_t) + 1,
            name |-> name,
            grade |-> grade,
            monthly_fee |-> monthly_fee,
            start_date |-> strftime_ymd(start_date),
            contact |-> contact])

\* Variant of the check that accepts a fee of 0.
AddStudentValid_fee_ge_0(name, monthly_fee) == name # "" /\ monthly_fee >= 0

\* if name and monthly_fee > 0
AddStudentValid(name, monthly_fee) == name # "" /\ monthly_fee > 0

\* students['name'].tolist()
student_names(students_df) == [i \in DOMAIN students_df |-> students_df[i].name]

\* students[students['name'] == selected_student].iloc[0]
student_row(students_df, selected_student) ==
    Head(SelectSeq(students_df, LAMBDA r : r.name = selected_student))

\* Variant of the query that matches the id against payment_id.
find_payments_by_payment_id(payments_t, student_id, month) ==
    SelectSeq(payments_t, LAMBDA p : p.payment_id = student_id /\ p.month = month)

\* Variant of the query that matches the month against payment_date.
find_payments_by_payment_date(payments_t, student_id, month) ==
    SelectSeq(payments_t,
              LAMBDA p : p.student_id = student_id /\ p.payment_date = month)

\* SELECT * FROM payments WHERE student_id = ? AND month = ?
find_payments(payments_t, student_id, month) ==
    SelectSeq(payments_t, LAMBDA p : p.student_id = student_id /\ p.month = month)

\* INSERT INTO payments: AUTOINCREMENT id, payment_date from the clock.
insert_payment(payments_t, student_id, month, amount, today, payment_mode) ==
    Append(payments_t,
           [payment_id |-> Len(payments_t) + 1,
            student_id |-> student_id,
            month |-> month,
            amount_paid |-> amount,
            payment_date |-> strftime_ymd(today),
            payment_mode |-> payment_mode])

RECURSIVE SumAmountPaid(_)
SumAmountPaid(payments_df) ==
    IF payments_df = <<>> THEN 0
    ELSE Head(payments_df).amount_paid + SumAmountPaid(Tail(payments_df))

\* Variant that counts the rows instead of adding the amounts.
total_collected_count(payments_df) ==
    IF payments_df # <<>> THEN Len(payments_df) ELSE 0

\* payments_df['amount_paid'].sum() if not payments_df.empty else 0
total_collected(payments_df) ==
    IF payments_df # <<>> THEN SumAmountPaid(payments_df) ELSE 0

\* Variant that forgets the month filter.
paid_students_any_month(payments_df, current_month) ==
    { payments_df[i].student_id : i \in DOMAIN payments_df }

\* payments_df[payments_df['month'] == current_month]['student_id'].unique().tolist()
paid_students(payments_df, current_month) ==
    { p.student_id : p \in { payments_df[i] : i \in { j \in DOMAIN payments_df :
                                   payments_df[j].month = current_month } } }

\* students_df[~students_df['student_id'].isin(paid_students)]
unpaid_students(students_df, payments_df, current_month) ==
    SelectSeq(students_df,
              LAMBDA s : s.student_id \notin paid_students(payments_df, current_month))

\* payments_df[payments_df['student_id'] == student_id]  (sort_values('month')
\* only reorders the rows shown; count and sum do not depend on the order)
student_payments(payments_df, student_id) ==
    SelectSeq(payments_df, LAMBDA p : p.student_id = student_id)

\* Variant that takes the summary branch whatever the history holds.
HasPayments_always(student_payments_df) == TRUE

\* if not student_payments.empty
HasPayments(student_payments_df) == student_payments_df # <<>>

\* Variant without the "+ 1" that counts the starting month.
total_months_exclusive(current_date, start_date) ==
    (current_date.year - start_date.year) * 12
        + (current_date.month - start_date.month)

\* (current_date.year - start_date.year) * 12 + (current_date.month - start_date.month + 1)
total_months(current_date, start_date) ==
    (current_date.year - start_date.year) * 12
        + (current_date.month - start_date.month + 1)

\* pending_months = total_months - months_paid
pending_months(total, months_paid) == total - months_paid

----------------------------------------------------------------------------
\* Text the "Month" box can hold: the pre-filled current month, or what the
\* user typed instead, the empty string included.
MonthInputs == {"", strftime_bY(now)}

\* Every text MonthInputs can be under some clock of Clocks.
MonthTexts == {""} \cup { strftime_bY(c) : c \in Clocks }

\* number_input(min_value=0, value=monthly_fee)
AmountInputs(row) == {0, row.monthly_fee}

Idle == [pc |-> "idle"]

Init ==
    /\ students = <<>>
    /\ payments = <<>>
    /\ now \in Clocks
    /\ out = [op |-> "start"]
    /\ accepted_total = 0
    /\ session = [s \in Sessions |-> Idle]

\* "Add Student" page, button pressed.
AddStudent(name, grade, monthly_fee, start_date, contact) ==
    /\ IF AddStudentValid(name, monthly_fee)
       THEN /\ Len(students) < MaxStudents
            /\ students' =
                 insert_student(students, name, grade, monthly_fee, start_date, contact)
            /\ out' = [op |-> "AddStudent", result |-> "success",
                       name |-> name, monthly_fee |-> monthly_fee]
       ELSE /\ students' = students
            /\ out' = [op |-> "AddStudent", result |-> "warning",
                       name |-> name, monthly_fee |-> monthly_fee]
    /\ UNCHANGED <<payments, now, accepted_total, session>>

\* "Record Payment" page with an empty students table.
RecordPaymentNoStudents ==
    /\ students = <<>>
    /\ out' = [op |-> "RecordPayment", result |-> "no_students"]
    /\ UNCHANGED <<students, payments, now, accepted_total, session>>

\* "Record Payment" page, button pressed, run to completion: sel is the
\* position picked in the selectbox, whose value is the name at that position.
RecordPayment(sel, month, amount, payment_mode) ==
    /\ students # <<>>
    /\ sel \in DOMAIN students
    /\ LET selected_student == student_names(students)[sel]
           row == student_row(students, selected_student)
           existing == find_payments(payments, row.student_id, month)
       IN  /\ month \in MonthInputs
           /\ amount \in AmountInputs(row)
           /\ IF existing # <<>>
              THEN /\ payments' = payments
                   /\ accepted_total' = accepted_total
                   /\ out' = [op |-> "RecordPayment", result |-> "duplicate",
                              sel |-> sel, selected_student |-> selected_student,
                              student_id |-> row.student_id, month |-> month,
                              payment_mode |-> payment_mode]
              ELSE /\ Len(payments) < MaxPayments
                   /\ payments' = insert_payment(payments, row.student_id, month,
                                                 amount, now, payment_mode)
                   /\ accepted_total' = accepted_total + amount
                   /\ out' = [op |-> "RecordPayment", result |-> "success",
                              sel |-> sel, selected_student |-> selected_student,
                              student_id |-> row.student_id, month |-> month,
                              payment_mode |-> payment_mode, amount |-> amount]
    /\ UNCHANGED <<students, now, session>>

\* "Dashboard" page.
Dashboard ==
    /\ LET current_month == strftime_bY(now)
           unpaid == unpaid_students(students, payments, current_month)
       IN  out' =
             IF students # <<>>
             THEN [op |-> "Dashboard",
                   result |-> IF unpaid = <<>> THEN "all_paid" ELSE "unpaid",
                   total_collected |-> total_collected(payments),
                   current_month |-> current_month,
                   unpaid_students |-> unpaid]
             ELSE [op |-> "Dashboard", result |-> "no_students",
                   total_collected |-> total_collected(payments)]
    /\ UNCHANGED <<students, payments, now, accepted_total, session>>

\* "Payment Summary" page; sel is the position picked in the selectbox.
PaymentSummary(sel) ==
    /\ students # <<>>
    /\ sel \in DOMAIN students
    /\ LET selected_student == student_names(students)[sel]
           student == student_row(students, selected_student)
           student_id == student.student_id
           rows == student_payments(payments, student_id)
           months_paid == Len(rows)
           start_date == strptime_ymd(student.start_date)
           total == total_months(now, start_date)
           pending == pending_months(total, months_paid)
       IN  out' =
             IF HasPayments(rows)
             THEN [op |-> "PaymentSummary",
                   result |-> IF pending > 0 THEN "pending" ELSE "up_to_date",
                   sel |-> sel, selected_student |-> selected_student,
                   student_id |-> student_id,
                   total_paid |-> SumAmountPaid(rows),
                   months_paid |-> months_paid,
                   total_months |-> total,
                   pending_months |-> pending]
             ELSE [op |-> "PaymentSummary", result |-> "no_payments",
                   sel |-> sel, selected_student |-> selected_student,
                   student_id |-> student_id]
    /\ UNCHANGED <<students, payments, now, accepted_total, session>>

\* "Payment Summary" page with an empty students table.
PaymentSummaryNoStudents ==
    /\ students = <<>>
    /\ out' = [op |-> "PaymentSummary", result |-> "no_students"]
    /\ UNCHANGED <<students, payments, now, accepted_total, session>>

Next ==
    \/ \E name \in NameInputs, grade \in GradeInputs, monthly_fee \in FeeInputs,
          start_date \in StartDateInputs, contact \in ContactInputs :
          AddStudent(name, grade, monthly_fee, start_date, contact)
    \/ RecordPaymentNoStudents
    \/ \E sel \in 1..MaxStudents, month \in MonthTexts, amount \in FeeInputs,
          payment_mode \in PaymentModeInputs :
          RecordPayment(sel, month, amount, payment_mode)
    \/ Dashboard
    \/ \E sel \in 1..MaxStudents : PaymentSummary(sel)
    \/ PaymentSummaryNoStudents

Spec == Init /\ [][Next]_vars

----------------------------------------------------------------------------
\* Two sessions run the "Record Payment" script in their own threads over the
\* one cached connection: the duplicate check (line 91) and the insert
\* (lines 97-107) of a run are separate steps, and runs interleave.

InFlight == { s \in Sessions : session[s].pc = "insert" }

\* Script run up to and including the duplicate check.
RecordPaymentCheck(s, sel, month, amount, payment_mode) ==
    /\ session[s].pc = "idle"
    /\ students # <<>>
    /\ sel \in DOMAIN students
    /\ Len(payments) + Cardinality(InFlight) < MaxPayments
    /\ LET selected_student == student_names(students)[sel]
           row == student_row(students, selected_student)
           existing == find_payments(payments, row.student_id, month)
       IN  /\ month \in MonthInputs
           /\ amount \in AmountInputs(row)
           /\ IF existing # <<>>
              THEN /\ session' = session
                   /\ out' = [op |-> "RecordPayment", result |-> "duplicate",
                              sel |-> sel, selected_student |-> selected_student,
                              student_id |-> row.student_id, month |-> month,
                              payment_mode |-> payment_mode]
              ELSE /\ session' = [session EXCEPT ![s] =
                                    [pc |-> "insert", sel |-> sel,
                                     selected_student |-> selected_student,
                                     student_id |-> row.student_id, month |-> month,
                                     amount |-> amount, payment_mode |-> payment_mode]]
                   /\ out' = out
    /\ UNCHANGED <<students, payments, now, accepted_total>>

\* The else branch of the same run: insert, commit, report.
RecordPaymentInsert(s) ==
    /\ session[s].pc = "insert"
    /\ LET run == session[s]
       IN  /\ payments' = insert_payment(payments, run.student_id, run.month,
                                         run.amount, now, run.payment_mode)
           /\ accepted_total' = accepted_total + run.amount
           /\ out' = [op |-> "RecordPayment", result |-> "success",
                      sel |-> run.sel, selected_student |-> run.selected_student,
                      student_id |-> run.student_id, month |-> run.month,
                      payment_mode |-> run.payment_mode, amount |-> run.amount]
    /\ session' = [session EXCEPT ![s] = Idle]
    /\ UNCHANGED <<students, now>>

NextConcurrent ==
    \/ \E name \in NameInputs, grade \in GradeInputs, monthly_fee \in FeeInputs,
          start_date \in StartDateInputs, contact \in ContactInputs :
          AddStudent(name, grade, monthly_fee, start_date, contact)
    \/ \E s \in Sessions, sel \in 1..MaxStudents, month \in MonthTexts,
          amount \in FeeInputs, payment_mode \in PaymentModeInputs :
          RecordPaymentCheck(s, sel, month, amount, payment_mode)
    \/ \E s \in Sessions : RecordPaymentInsert(s)

SpecConcurrent == Init /\ [][NextConcurrent]_vars

----------------------------------------------------------------------------
\* Properties.

PaymentsOf(student_id) ==
    { i \in DOMAIN payments : payments[i].student_id = student_id }

PaymentsFor(student_id, month) ==
    { i \in PaymentsOf(student_id) : payments[i].month = month }

StudentWithId(student_id) ==
    CHOOSE r \in { students[i] : i \in DOMAIN students } : r.student_id = student_id

\* The date picked in the "Start Date" box of the student's row.
StartDateOf(student_id) ==
    CHOOSE d \in StartDateInputs :
        strftime_ymd(d) = StudentWithId(student_id).start_date

\* Calendar months from the start month through the current month, inclusive.
ElapsedMonths(student_id) ==
    (now.year - StartDateOf(student_id).year) * 12
        + (now.month - StartDateOf(student_id).month) + 1

Max0(n) == IF n > 0 THEN n ELSE 0

\* C1: with the operations run one at a time, the payments table never holds
\* two Payments for the same (student_id, month) pair.
C1_OnePaymentPerStudentMonth ==
    \A i, j \in DOMAIN payments :
        (/\ payments[i].student_id = payments[j].student_id
         /\ payments[i].month = payments[j].month) => i = j

C1_Witness ==
    /\ Len(payments) >= 2
    /\ out.op = "RecordPayment"
    /\ out.result = "duplicate"

\* C2: a RecordPayment for a (student_id, month) pair that already has a
\* Payment reports a duplicate and writes nothing: both tables are the same
\* before and after, so the stored Payment keeps its amount, mode and date.
C2_DuplicateWritesNothing ==
    [][ (/\ out'.op = "RecordPayment"
         /\ out'.result # "no_students"
         /\ PaymentsFor(out'.student_id, out'.month) # {})
        => (/\ out'.result = "duplicate"
            /\ students' = students
            /\ payments' = payments) ]_vars

C2_Witness ==
    /\ out.op = "RecordPayment"
    /\ out.result = "duplicate"
    /\ out.payment_mode = "UPI"
    /\ \E i \in PaymentsFor(out.student_id, out.month) :
           payments[i].payment_mode = "Cash"

\* C3: for every period, the unpaid list is exactly the Students with no
\* Payment whose month is that period (each listed once); the Dashboard shows
\* that list for the current month; and right after a successful
\* RecordPayment the Student the Payment is stored for is not in the list of
\* the Payment's month.
C3_UnpaidIsExactlyStudentsWithoutPayment ==
    /\ \A period \in MonthTexts :
          LET unpaid == unpaid_students(students, payments, period)
              expected == { students[i] : i \in { j \in DOMAIN students :
                                PaymentsFor(students[j].student_id, period) = {} } }
          IN  /\ { unpaid[i] : i \in DOMAIN unpaid } = expected
              /\ Len(unpaid) = Cardinality(expected)
    /\ (out.op = "Dashboard" /\ out.result # "no_students") =>
          /\ out.current_month = strftime_bY(now)
          /\ { out.unpaid_students[i] : i \in DOMAIN out.unpaid_students }
               = { students[i] : i \in { j \in DOMAIN students :
                       PaymentsFor(students[j].student_id, out.current_month) = {} } }
          /\ (out.result = "all_paid") <=> (out.unpaid_students = <<>>)
    /\ (out.op = "RecordPayment" /\ out.result = "success") =>
          LET unpaid == unpaid_students(students, payments, out.month)
          IN  \A i \in DOMAIN unpaid : unpaid[i].student_id # out.student_id

C3_Witness ==
    /\ out.op = "RecordPayment"
    /\ out.result = "success"
    /\ out.month = strftime_bY(now)
    /\ Len(payments) = 2
    /\ unpaid_students(students, payments, out.month) # <<>>
    /\ unpaid_students(students, payments, "") # unpaid_students(students, payments, out.month)

\* One row was appended to students, carrying the entered name and fee and
\* an id no earlier row has.
InsertedOneStudent ==
    /\ Len(students') = Len(students) + 1
    /\ SubSeq(students', 1, Len(students)) = students
    /\ students'[Len(students')].name = out'.name
    /\ students'[Len(students')].monthly_fee = out'.monthly_fee
    /\ \A i \in DOMAIN students :
           students[i].student_id # students'[Len(students')].student_id

\* C4 as stated: AddStudent inserts one Student when name is non-empty and
\* monthly_fee >= 0 (0 included), and otherwise reports a validation failure
\* and leaves students unchanged.
C4_AsStated ==
    [][ out'.op = "AddStudent" =>
          IF out'.name # "" /\ out'.monthly_fee >= 0
          THEN out'.result = "success" /\ InsertedOneStudent
          ELSE out'.result = "warning" /\ students' = students ]_vars

\* C4 amended: AddStudent inserts one Student when name is non-empty and
\* monthly_fee > 0, and otherwise (empty name, or a fee of 0) reports a
\* validation failure and leaves students unchanged.
C4_InsertsIffNameAndPositiveFee ==
    [][ out'.op = "AddStudent" =>
          IF out'.name # "" /\ out'.monthly_fee > 0
          THEN out'.result = "success" /\ InsertedOneStudent
          ELSE out'.result = "warning" /\ students' = students ]_vars

C4_Witness ==
    /\ out.op = "AddStudent"
    /\ out.result = "warning"
    /\ out.name # ""
    /\ out.monthly_fee = 0
    /\ students # <<>>

\* C5 as stated: the summary of a Student with zero Payments yields
\* months_paid = 0 and pending_months equal to the elapsed-month count (1 when
\* the start date is in the current month).
C5_AsStated ==
    (/\ out.op = "PaymentSummary"
     /\ out.result # "no_students"
     /\ PaymentsOf(out.student_id) = {})
    => (/\ "months_paid" \in DOMAIN out
        /\ "pending_months" \in DOMAIN out
        /\ out.months_paid = 0
        /\ out.pending_months = ElapsedMonths(out.student_id))

\* C5 amended: the summary of a Student with zero Payments is only the
\* "no payments recorded" notice; it yields no months_paid, total_months or
\* pending_months at all.
C5_NoPaymentsOnlyNotice ==
    (/\ out.op = "PaymentSummary"
     /\ out.result # "no_students"
     /\ PaymentsOf(out.student_id) = {})
    => (/\ out.result = "no_payments"
        /\ DOMAIN out \cap {"total_paid", "months_paid", "total_months",
                            "pending_months"} = {})

C5_Witness ==
    /\ out.op = "PaymentSummary"
    /\ out.result = "no_payments"
    /\ PaymentsOf(out.student_id) = {}
    /\ ElapsedMonths(out.student_id) > 0
    /\ payments # <<>>

\* C6 as stated: the summary of a Student with at least one Payment has
\* months_paid = number of that Student's Payments, total_months =
\* (current_year - start_year) * 12 + (current_month - start_month) + 1 and
\* pending_months = max(0, total_months - months_paid), and reports the
\* Student outstanding exactly when pending_months > 0.
C6_AsStated ==
    (/\ out.op = "PaymentSummary"
     /\ out.result # "no_students"
     /\ PaymentsOf(out.student_id) # {})
    => (/\ out.result \in {"pending", "up_to_date"}
        /\ out.months_paid = Cardinality(PaymentsOf(out.student_id))
        /\ out.total_months = ElapsedMonths(out.student_id)
        /\ out.pending_months = Max0(out.total_months - out.months_paid)
        /\ (out.result = "pending") <=> (out.pending_months > 0))

\* C6 amended: as C6, but pending_months = total_months - months_paid, not
\* clamped at 0 (it is negative when months_paid exceeds the elapsed months);
\* the Student is reported outstanding exactly when pending_months > 0, and
\* the number then shown equals max(0, total_months - months_paid).
C6_PendingIsUnclampedDifference ==
    (/\ out.op = "PaymentSummary"
     /\ out.result # "no_students"
     /\ PaymentsOf(out.student_id) # {})
    => (/\ out.result \in {"pending", "up_to_date"}
        /\ out.months_paid = Cardinality(PaymentsOf(out.student_id))
        /\ out.total_months = ElapsedMonths(out.student_id)
        /\ out.pending_months = out.total_months - out.months_paid
        /\ (out.result = "pending") <=> (out.pending_months > 0)
        /\ (out.result = "pending") =>
              out.pending_months = Max0(out.total_months - out.months_paid))

C6_Witness ==
    /\ out.op = "PaymentSummary"
    /\ out.result = "up_to_date"
    /\ out.pending_months < 0

\* C7: the total collected is the sum of amount_paid over the stored
\* Payments: 0 when there is none, however many Students exist, and always
\* the sum of the amounts of the RecordPayment calls that succeeded.
C7_TotalIsSumOfAcceptedAmounts ==
    /\ total_collected(payments) = accepted_total
    /\ (payments = <<>>) => (total_collected(payments) = 0)
    /\ (out.op = "Dashboard") => (out.total_collected = accepted_total)

C7_Witness ==
    /\ out.op = "Dashboard"
    /\ Len(payments) = 2
    /\ out.total_collected = 1500
    /\ students # <<>>

\* C8: every stored Payment references an existing Student, has
\* amount_paid >= 0, a mode of the enumeration and a non-empty month.
C8_StoredPaymentsMeetPreconditions ==
    \A i \in DOMAIN payments :
        /\ \E j \in DOMAIN students :
               students[j].student_id = payments[i].student_id
        /\ payments[i].amount_paid >= 0
        /\ payments[i].payment_mode \in PaymentModes
        /\ payments[i].month # ""

\* C9: a successful RecordPayment stores a Payment whose student_id is the id
\* of the Student picked in the selectbox.
C9_PaymentStoredForSelectedStudent ==
    (out.op = "RecordPayment" /\ out.result = "success")
    => payments[Len(payments)].student_id = students[out.sel].student_id

\* C10: with the check and the insert of two RecordPayment runs interleaved,
\* no (student_id, month) pair gets a second Payment.
C10_OnePaymentPerStudentMonthConcurrent ==
    \A i \in DOMAIN students, month \in MonthTexts :
        Cardinality(PaymentsFor(students[i].student_id, month)) <= 1

====
